---- MODULE Spec2Model ----
(***************************************************************************)
(* BunkerQueenOverlord (src/overlords/core/queen_bunker.ts): the per-tick  *)
(* dispatcher that assigns the four bunker quadrants to the queens, builds *)
(* supply / withdraw task manifests for idle queens and runs every queen.  *)
(***************************************************************************)
EXTENDS Integers, Sequences, FiniteSets, TLC

\* ------------------------------------------------------------------ bounds
\* largest queen name drawn when the constructor is checked on its own
MaxQueens == 3
\* largest amount of one transport request
MaxAmount == 2
\* largest amount of one resource held by one store structure
MaxStock == 1
\* largest carry capacity of a queen
MaxCapacity == 3

\* init(): wishlist(amount, QueenSetup) asks for at most two queens
WishlistAmount == 2

\* ------------------------------------------------------------ state
VARIABLES
    creeps,          \* this.zerg(QueenSetup.role): the names of the queens
    spawning,        \* queen.spawning
    carry,           \* queen.carry: resource -> amount
    carryCapacity,   \* queen.carryCapacity
    qpos,            \* queen.pos
    task,            \* queen.task: the chained operations, << >> when null
    store,           \* s.store of the terminal, the storage and the containers that exist
    containers,      \* this.room.containers, in room order
    structuresAt,    \* pos.lookFor(LOOK_STRUCTURES) of every bunker coordinate
    supplyByID,      \* transportRequests.supplyByID
    withdrawByID,    \* transportRequests.withdrawByID
    queens,          \* this.queens
    batteries,       \* this.batteries
    storeStructures, \* this.storeStructures
    quadrants,       \* this.quadrants
    assignments,     \* this.assignments
    pc,              \* "env": between ticks; "handle"/"exec": inside run()'s loop
    idx,             \* index into this.queens of the queen run() is at
    builds,          \* manifest builds invoked this tick: <<queen, kind>>
    warnings,        \* log.warning calls of this tick: <<queen, message>>
    goTos,           \* queen.goTo calls of this tick: <<queen, position>>
    runs,            \* queen.run() calls of this tick, in call order
    warnedBefore     \* the log of the tick before: the queens a build warning names

vars == <<creeps, spawning, carry, carryCapacity, qpos, task, store, containers,
          structuresAt, supplyByID, withdrawByID, queens, batteries,
          storeStructures, quadrants, assignments, pc, idx, builds, warnings,
          goTos, runs, warnedBefore>>

envVars == <<creeps, spawning, carry, carryCapacity, qpos, store, containers,
             structuresAt, supplyByID, withdrawByID>>

overlordVars == <<queens, batteries, storeStructures, quadrants, assignments>>

logVars == <<builds, warnings, goTos, runs, warnedBefore>>

\* ------------------------------------------------------------ helpers
Resources == {"energy", "mineral"}

NoTask == << >>

Min(a, b) == IF a <= b THEN a ELSE b

Range(s) == {s[i] : i \in 1..Len(s)}

\* _.flatten of a sequence of sequences
RECURSIVE Flatten(_)
Flatten(ss) == IF ss = << >> THEN << >> ELSE Head(ss) \o Flatten(Tail(ss))

\* _.sum of a resource -> amount map
RECURSIVE SumOver(_, _)
SumOver(f, S) ==
    IF S = {} THEN 0
    ELSE LET r == CHOOSE x \in S : TRUE IN f[r] + SumOver(f, S \ {r})

Sum(f) == SumOver(f, DOMAIN f)

\* ------------------------------------------------------------ layout
\* quadrantFillOrder of roomPlanner/layouts/bunker: the coordinates of each
\* quadrant, in fill order
quadrantFillOrder ==
    [lowerRight |-> <<1, 2>>, upperLeft |-> <<3>>, lowerLeft |-> <<4>>, upperRight |-> <<5>>]

Coords == 1..5

\* getPosFromBunkerCoord: positions are points of a line
getPosFromBunkerCoord(coord) == coord

\* the structure type a bunker coordinate is planned for
PlannedType(coord) ==
    CASE coord = 1 -> "spawn"
      [] coord = 2 -> "extension"
      [] coord = 3 -> "tower"
      [] coord = 4 -> "lab"
      [] OTHER -> "extension"

Structure(id, type) == [id |-> id, structureType |-> type]

\* what lookFor(LOOK_STRUCTURES) can return at a coordinate: nothing, the planned
\* structure, a road, or the planned structure under a rampart
LookOption(coord, k) ==
    CASE k = 0 -> << >>
      [] k = 1 -> << Structure(coord, PlannedType(coord)) >>
      [] k = 2 -> << Structure(100 + coord, "road") >>
      [] OTHER -> << Structure(100 + coord, "rampart"), Structure(coord, PlannedType(coord)) >>

\* mutant of isSupplyStructure: labs are not taken for supply structures
isSupplyStructureWithoutLabs(structure) ==
    \/ structure.structureType = "extension"
    \/ structure.structureType = "tower"
    \/ structure.structureType = "spawn"

isSupplyStructure(structure) ==
    \/ structure.structureType = "extension"
    \/ structure.structureType = "lab"
    \/ structure.structureType = "tower"
    \/ structure.structureType = "spawn"

\* _.find(list, isSupplyStructure): << >> when undefined
FindSupplyStructure(list) ==
    LET hits == SelectSeq(list, isSupplyStructure)
    IN IF hits = << >> THEN << >> ELSE << Head(hits).id >>

\* computeQuadrant: the ids of the supply structures found, in coordinate order
RECURSIVE computeQuadrant(_)
computeQuadrant(quadrant) ==
    IF quadrant = << >> THEN << >>
    ELSE FindSupplyStructure(structuresAt[getPosFromBunkerCoord(Head(quadrant))])
         \o computeQuadrant(Tail(quadrant))

\* ------------------------------------------------------------ constructor
\* _.sortBy(creeps, creep => creep.name)
RECURSIVE SortByName(_)
SortByName(S) ==
    IF S = {} THEN << >>
    ELSE LET m == CHOOSE x \in S : \A y \in S : x <= y
         IN << m >> \o SortByName(S \ {m})

\* insideBunkerBounds(container.pos, colony)
insideBunkerBounds(c) == c.inside

\* _.filter(this.room.containers, insideBunkerBounds), as ids
Batteries == LET inside == SelectSeq(containers, insideBunkerBounds)
             IN [i \in 1..Len(inside) |-> inside[i].id]

\* ids of the colony's terminal and storage, and of the room's containers
TerminalId == 201
StorageId == 202
ContainerIds == {211, 212}

\* this.colony.terminal / this.colony.storage: << >> when undefined
Terminal == IF TerminalId \in DOMAIN store THEN << TerminalId >> ELSE << >>
Storage == IF StorageId \in DOMAIN store THEN << StorageId >> ELSE << >>

\* _.compact([terminal, storage, ...batteries])
StoreStructures == Terminal \o Storage \o Batteries

Quadrants ==
    [lowerRight |-> computeQuadrant(quadrantFillOrder.lowerRight),
     upperLeft  |-> computeQuadrant(quadrantFillOrder.upperLeft),
     lowerLeft  |-> computeQuadrant(quadrantFillOrder.lowerLeft),
     upperRight |-> computeQuadrant(quadrantFillOrder.upperRight)]

\* mutant of ActiveQueens: spawning queens are not filtered out
ActiveQueensUnfiltered(qs) == qs

\* _.filter(this.queens, queen => !queen.spawning)
ActiveQueens(qs) == SelectSeq(qs, LAMBDA q : ~spawning[q])

quadrantAssignmentOrder(quads) ==
    << quads.lowerRight, quads.upperLeft, quads.lowerLeft, quads.upperRight >>

\* mutant of AssignedQueen: the round-robin starts one queen late
AssignedQueenShifted(activeQueens, i) ==
    activeQueens[((i + 1) % Len(activeQueens)) + 1]

\* activeQueens[i % activeQueens.length], i counted from 0
AssignedQueen(activeQueens, i) == activeQueens[(i % Len(activeQueens)) + 1]

\* the for loop over quadrantAssignmentOrder, from 0-based iteration i on
RECURSIVE AssignLoop(_, _, _, _)
AssignLoop(asg, activeQueens, order, i) ==
    IF i >= Len(order) THEN asg
    ELSE LET queen == AssignedQueen(activeQueens, i)
         IN AssignLoop([asg EXCEPT ![queen] = @ \o order[i + 1]],
                       activeQueens, order, i + 1)

\* mutant of Assignments: every quadrant is assigned to every active queen
AssignmentsToEveryQueen(qs, quads) ==
    [q \in Range(qs) |-> IF spawning[q] THEN << >>
                         ELSE Flatten(quadrantAssignmentOrder(quads))]

Assignments(qs, quads) ==
    LET empty == [q \in Range(qs) |-> << >>]
        activeQueens == ActiveQueens(qs)
    IN IF Len(activeQueens) >= 1
       THEN AssignLoop(empty, activeQueens, quadrantAssignmentOrder(quads), 0)
       ELSE empty

\* new BunkerQueenOverlord(hatchery): run at the start of every tick
Construct ==
    /\ pc = "env"
    /\ queens' = SortByName(creeps)
    /\ batteries' = Batteries
    /\ storeStructures' = StoreStructures
    /\ quadrants' = Quadrants
    /\ assignments' = Assignments(SortByName(creeps), Quadrants)
    /\ pc' = IF creeps = {} THEN "done" ELSE "handle"
    /\ idx' = 1
    /\ builds' = << >>
    /\ warnings' = << >>
    /\ goTos' = << >>
    /\ runs' = << >>
    /\ UNCHANGED <<envVars, task, warnedBefore>>

\* ------------------------------------------------------------ tasks
\* Tasks.transferAll(target)
TransferAll(target) ==
    [op |-> "transferAll", target |-> target, resourceType |-> "all", amount |-> 0]

\* Tasks.transfer(target, resourceType, amount)
Transfer(target, resourceType, amount) ==
    [op |-> "transfer", target |-> target, resourceType |-> resourceType, amount |-> amount]

\* Tasks.withdraw(target, resourceType, amount)
Withdraw(target, resourceType, amount) ==
    [op |-> "withdraw", target |-> target, resourceType |-> resourceType, amount |-> amount]

\* task.fork(newTask) over the tasks before the last, from the end: every
\* forked task becomes the current one and the old chain its parent
RECURSIVE ForkLoop(_, _)
ForkLoop(chained, rest) ==
    IF rest = << >> THEN chained
    ELSE ForkLoop(<< rest[Len(rest)] >> \o chained, SubSeq(rest, 1, Len(rest) - 1))

\* Tasks.chain(tasks): null for an empty list, else the tasks linked in order
Chain(tasks) ==
    IF tasks = << >> THEN NoTask
    ELSE ForkLoop(<< tasks[Len(tasks)] >>, SubSeq(tasks, 1, Len(tasks) - 1))

\* queen.isIdle: the queen has no task
isIdle(q) == task[q] = NoTask

\* ------------------------------------------------------------ positions
\* target.pos of a structure
PosOf(id) ==
    CASE id = TerminalId -> 6
      [] id = StorageId -> 0
      [] id \in ContainerIds -> id - 204
      [] OTHER -> getPosFromBunkerCoord(id)

\* Pathing.distance(a, b)
Distance(a, b) == IF a >= b THEN a - b ELSE b - a

\* bunkerChargingSpots, as positions
bunkerChargingSpots == << 2, 4 >>

\* minBy(objects, iteratee): the first object of least value, << >> when none
RECURSIVE MinByLoop(_, _, _, _)
MinByLoop(objects, from, minObj, i) ==
    IF i > Len(objects) THEN minObj
    ELSE IF minObj = << >> \/ Distance(from, PosOf(objects[i])) < Distance(from, PosOf(minObj[1]))
         THEN MinByLoop(objects, from, << objects[i] >>, i + 1)
         ELSE MinByLoop(objects, from, minObj, i + 1)

minBy(objects, from) == MinByLoop(objects, from, << >>, 1)

\* ------------------------------------------------------------ manifests
NoTransferTargets == "No transfer targets"
NoWithdrawTarget == "No withdraw target"
NoChargingSpot == "Could not determine charging spot"

\* this.colony.terminal || this.colony.storage || this.batteries[0]
\* mutant of TransferTargetOf: the storage is looked at before the terminal
TransferTargetStorageFirst ==
    LET all == Storage \o Terminal \o batteries
    IN IF all = << >> THEN << >> ELSE << Head(all) >>

TransferTargetOf ==
    LET all == Terminal \o Storage \o batteries
    IN IF all = << >> THEN << >> ELSE << Head(all) >>

\* _.sum(queen.carry)
CarrySum(q) == Sum(carry[q])

\* _.compact(_.flatten(_.map(assignments[queen.name], struc => byID[struc.id])))
RequestsOf(q, byID) ==
    Flatten([i \in 1..Len(assignments[q]) |->
                IF assignments[q][i] \in DOMAIN byID THEN byID[assignments[q][i]] ELSE << >>])

\* mergeSum(_.map(this.storeStructures, s => s.store))[resourceType] || 0
RECURSIVE allStoreOf(_, _)
allStoreOf(stores, resourceType) ==
    IF stores = << >> THEN 0
    ELSE store[Head(stores)][resourceType] + allStoreOf(Tail(stores), resourceType)

allStore(resourceType) == allStoreOf(storeStructures, resourceType)

\* the simulated carry: its keys in insertion order, and the amount of each kind
EmptyCarry == [keys |-> << >>, amt |-> [r \in Resources |-> 0]]
EnergyCarry == [keys |-> << "energy" >>, amt |-> [r \in Resources |-> 0]]

\* mutant of AddCarry: the amount is stored, not added
AddCarryOverwriting(queenCarry, resourceType, amount) ==
    [keys |-> IF resourceType \in Range(queenCarry.keys) THEN queenCarry.keys
              ELSE Append(queenCarry.keys, resourceType),
     amt |-> [queenCarry.amt EXCEPT ![resourceType] = amount]]

\* if (!queenCarry[r]) queenCarry[r] = 0;  queenCarry[r] += amount
AddCarry(queenCarry, resourceType, amount) ==
    [keys |-> IF resourceType \in Range(queenCarry.keys) THEN queenCarry.keys
              ELSE Append(queenCarry.keys, resourceType),
     amt |-> [queenCarry.amt EXCEPT ![resourceType] = @ + amount]]

\* _.sum(queenCarry)
SimulatedSum(queenCarry) == Sum(queenCarry.amt)

\* mutant of SupplyAmount: the remaining capacity is not taken into account
SupplyAmountUncapped(request, remainingAmount) ==
    Min(request.amount, allStore(request.resourceType))

\* Math.min(Math.min(request.amount, remainingAmount), allStore[resourceType] || 0)
SupplyAmount(request, remainingAmount) ==
    Min(Min(request.amount, remainingAmount), allStore(request.resourceType))

\* mutant of SupplyStep: a request whose amount is 0 ends the loop
SupplyStepEndingAtZero(fill, request, capacity) ==
    LET remainingAmount == capacity - SimulatedSum(fill.queenCarry)
        amount == SupplyAmount(request, remainingAmount)
    IN IF fill.stopped THEN fill
       ELSE IF remainingAmount = 0 \/ amount = 0 THEN [fill EXCEPT !.stopped = TRUE]
       ELSE [queenCarry |-> AddCarry(fill.queenCarry, request.resourceType, amount),
             tasks |-> Append(fill.tasks,
                              Transfer(request.target, request.resourceType, amount)),
             stopped |-> FALSE]

\* one iteration of the supply loop; fill = [queenCarry, tasks, stopped]
SupplyStep(fill, request, capacity) ==
    LET remainingAmount == capacity - SimulatedSum(fill.queenCarry)
        amount == SupplyAmount(request, remainingAmount)
    IN IF fill.stopped THEN fill
       ELSE IF remainingAmount = 0 THEN [fill EXCEPT !.stopped = TRUE]
       ELSE IF amount = 0 THEN fill
       ELSE [queenCarry |-> AddCarry(fill.queenCarry, request.resourceType, amount),
             tasks |-> Append(fill.tasks,
                              Transfer(request.target, request.resourceType, amount)),
             stopped |-> FALSE]

\* mutant of WithdrawAmount: the amount is also capped by what the stores hold
WithdrawAmountChecked(request, remainingAmount) ==
    Min(Min(request.amount, remainingAmount), allStore(request.resourceType))

\* Math.min(request.amount, remainingAmount)
WithdrawAmount(request, remainingAmount) == Min(request.amount, remainingAmount)

\* one iteration of the withdraw loop
WithdrawStep(fill, request, capacity) ==
    LET remainingAmount == capacity - SimulatedSum(fill.queenCarry)
        amount == WithdrawAmount(request, remainingAmount)
    IN IF fill.stopped THEN fill
       ELSE IF remainingAmount = 0 THEN [fill EXCEPT !.stopped = TRUE]
       ELSE IF amount = 0 THEN fill
       ELSE [queenCarry |-> AddCarry(fill.queenCarry, request.resourceType, amount),
             tasks |-> Append(fill.tasks,
                              Withdraw(request.target, request.resourceType, amount)),
             stopped |-> FALSE]

\* the supply loop after its first k requests
RECURSIVE SupplyFill(_, _, _)
SupplyFill(requests, capacity, k) ==
    IF k = 0 THEN [queenCarry |-> EmptyCarry, tasks |-> << >>, stopped |-> FALSE]
    ELSE SupplyStep(SupplyFill(requests, capacity, k - 1), requests[k], capacity)

\* the withdraw loop after its first k requests
RECURSIVE WithdrawFill(_, _, _)
WithdrawFill(requests, capacity, k) ==
    IF k = 0 THEN [queenCarry |-> EnergyCarry, tasks |-> << >>, stopped |-> FALSE]
    ELSE WithdrawStep(WithdrawFill(requests, capacity, k - 1), requests[k], capacity)

\* mutant of Qualifies: a store qualifies when it covers some needed resource
QualifiesForAny(s, queenCarry) ==
    \E i \in 1..Len(queenCarry.keys) :
        store[s][queenCarry.keys[i]] >= queenCarry.amt[queenCarry.keys[i]]

\* _.all(neededResources, resource => (s.store[resource] || 0) >= (queenCarry[resource] || 0))
Qualifies(s, queenCarry) ==
    \A i \in 1..Len(queenCarry.keys) :
        store[s][queenCarry.keys[i]] >= queenCarry.amt[queenCarry.keys[i]]

\* mutant of WithdrawTargets: every store structure is a candidate
WithdrawTargetsUnfiltered(queenCarry) == storeStructures

\* _.filter(this.storeStructures, ...)
WithdrawTargets(queenCarry) ==
    SelectSeq(storeStructures, LAMBDA s : Qualifies(s, queenCarry))

\* targets.length > 1 ? minBy(targets, distance from queenPos) : _.first(targets)
WithdrawTargetOf(targets, from) ==
    IF Len(targets) > 1 THEN minBy(targets, from)
    ELSE IF targets = << >> THEN << >> ELSE << Head(targets) >>

\* mutant of Failed: the build returns null without logging
FailedSilently(message) == [task |-> NoTask, warnings |-> << >>]

\* the result of a build that returns null after a warning
Failed(message) == [task |-> NoTask, warnings |-> << message >>]

\* mutant of SupplyOrder: the deliveries are put before the withdrawals
SupplyOrderDeliverFirst(tasks, withdrawTasks, supplyTasks) ==
    tasks \o supplyTasks \o withdrawTasks

\* tasks.concat(withdrawTasks, supplyTasks)
SupplyOrder(tasks, withdrawTasks, supplyTasks) == tasks \o withdrawTasks \o supplyTasks

\* mutant of queenPos: the queen's own position, flush or not
queenPosUnmoved(q, flush, transferTarget) == qpos[q]

\* queenPos: queen.pos, or transferTarget.pos once a flush is planned
queenPos(q, flush, transferTarget) ==
    IF flush /\ transferTarget # << >> THEN PosOf(transferTarget[1]) ELSE qpos[q]

\* buildSupplyTaskManifest(queen): the task returned and the warnings logged
buildSupplyTaskManifest(q) ==
    LET transferTarget == TransferTargetOf
        flush == CarrySum(q) > 0
        requests == RequestsOf(q, supplyByID)
        fill == SupplyFill(requests, carryCapacity[q], Len(requests))
        queenCarry == fill.queenCarry
        targets == WithdrawTargets(queenCarry)
        withdrawTarget == WithdrawTargetOf(targets, queenPos(q, flush, transferTarget))
        withdrawTasks == [i \in 1..Len(queenCarry.keys) |->
                             Withdraw(withdrawTarget[1], queenCarry.keys[i],
                                      queenCarry.amt[queenCarry.keys[i]])]
        tasks == IF flush THEN << TransferAll(transferTarget[1]) >> ELSE << >>
    IN IF flush /\ transferTarget = << >> THEN Failed(NoTransferTargets)
       ELSE IF withdrawTarget = << >> THEN Failed(NoWithdrawTarget)
       ELSE [task |-> Chain(SupplyOrder(tasks, withdrawTasks, fill.tasks)),
             warnings |-> << >>]

\* buildWithdrawTaskManifest(queen): the task returned and the warnings logged
buildWithdrawTaskManifest(q) ==
    LET transferTarget == TransferTargetOf
        flush == CarrySum(q) > 0
        requests == RequestsOf(q, withdrawByID)
        fill == WithdrawFill(requests, carryCapacity[q], Len(requests))
        tasks == IF flush THEN << TransferAll(transferTarget[1]) >> ELSE << >>
    IN IF transferTarget = << >> THEN Failed(NoTransferTargets)
       ELSE [task |-> Chain(tasks \o fill.tasks \o << TransferAll(transferTarget[1]) >>),
             warnings |-> << >>]

\* ------------------------------------------------------------ dispatch
\* pos.findClosestByRange(chargeSpots): the first spot of least range, << >> when none
RECURSIVE ClosestLoop(_, _, _, _)
ClosestLoop(spots, from, best, i) ==
    IF i > Len(spots) THEN best
    ELSE IF best = << >> \/ Distance(from, spots[i]) < Distance(from, best[1])
         THEN ClosestLoop(spots, from, << spots[i] >>, i + 1)
         ELSE ClosestLoop(spots, from, best, i + 1)

\* getChargingSpot(queen): the spot and the warnings logged
getChargingSpot(q) ==
    LET from == IF assignments[q] # << >> THEN PosOf(Head(assignments[q])) ELSE qpos[q]
        chargeSpot == ClosestLoop(bunkerChargingSpots, from, << >>, 1)
    IN IF chargeSpot # << >> THEN [spot |-> chargeSpot[1], warnings |-> << >>]
       ELSE [spot |-> qpos[q], warnings |-> << NoChargingSpot >>]

\* mutant of AnyRequest: any request of the colony counts, assigned or not
AnyRequestAnywhere(q, byID) == DOMAIN byID # {}

\* _.any(assignments[queen.name], struc => byID[struc.id])
AnyRequest(q, byID) == \E i \in 1..Len(assignments[q]) : assignments[q][i] \in DOMAIN byID

\* mutant of BuildKind: the supply requests are looked at first
BuildKindSupplyFirst(q) ==
    IF AnyRequest(q, supplyByID) THEN "supply"
    ELSE IF AnyRequest(q, withdrawByID) THEN "withdraw"
    ELSE "none"

\* the branch handleQueen takes
BuildKind(q) ==
    IF AnyRequest(q, withdrawByID) THEN "withdraw"
    ELSE IF AnyRequest(q, supplyByID) THEN "supply"
    ELSE "none"

\* the queen.isIdle test that follows the build in handleQueen
IdleAfter(q, kind, newTask) == newTask = NoTask

Tag(q, items) == [i \in 1..Len(items) |-> << q, items[i] >>]

\* handleQueen(queen): the queen's new task and what is logged
handleQueen(q) ==
    LET kind == BuildKind(q)
        built == IF kind = "withdraw" THEN buildWithdrawTaskManifest(q)
                 ELSE IF kind = "supply" THEN buildSupplyTaskManifest(q)
                 ELSE [task |-> task[q], warnings |-> << >>]
        idle == IdleAfter(q, kind, built.task)
        spot == getChargingSpot(q)
    IN [task |-> built.task,
        builds |-> IF kind = "none" THEN << >> ELSE << << q, kind >> >>,
        warnings |-> Tag(q, built.warnings \o (IF idle THEN spot.warnings ELSE << >>)),
        goTos |-> IF idle THEN << << q, spot.spot >> >> ELSE << >>]

\* mutant of NeedsHandling: every queen is handled, idle or not
NeedsHandlingAlways(q) == TRUE

\* mutant of NeedsHandling: a queen whose build failed in the tick before is
\* passed over
NeedsHandlingUnlessWarned(q) == isIdle(q) /\ q \notin warnedBefore

\* run(): if (queen.isIdle)
NeedsHandling(q) == isIdle(q)

\* mutant of Handle: handling a queen empties its carry at once, as if the
\* flush had already been carried out
HandleEmptyingCarry ==
    /\ pc = "handle"
    /\ LET q == queens[idx]
           h == handleQueen(q)
       IN IF NeedsHandling(q)
          THEN /\ task' = [task EXCEPT ![q] = h.task]
               /\ builds' = builds \o h.builds
               /\ warnings' = warnings \o h.warnings
               /\ goTos' = goTos \o h.goTos
               /\ carry' = [carry EXCEPT ![q] = [r \in Resources |-> 0]]
          ELSE UNCHANGED <<task, builds, warnings, goTos, carry>>
    /\ pc' = "exec"
    /\ UNCHANGED <<creeps, spawning, carryCapacity, qpos, store, containers,
                   structuresAt, supplyByID, withdrawByID, overlordVars, idx, runs,
                   warnedBefore>>

\* run(), first half of one loop iteration: if (queen.isIdle) this.handleQueen(queen)
Handle ==
    /\ pc = "handle"
    /\ LET q == queens[idx]
           h == handleQueen(q)
       IN IF NeedsHandling(q)
          THEN /\ task' = [task EXCEPT ![q] = h.task]
               /\ builds' = builds \o h.builds
               /\ warnings' = warnings \o h.warnings
               /\ goTos' = goTos \o h.goTos
          ELSE UNCHANGED <<task, builds, warnings, goTos>>
    /\ pc' = "exec"
    /\ UNCHANGED <<envVars, overlordVars, idx, runs, warnedBefore>>

\* mutant of NextPc: the loop ends at a queen whose build failed
NextPcStopOnFailure(i) ==
    IF i = Len(queens) \/ \E w \in Range(warnings) : w[1] = queens[i] THEN "done" ELSE "handle"

\* run(): the loop goes on to the next queen or ends
NextPc(i) == IF i = Len(queens) THEN "done" ELSE "handle"

\* run(), second half of one loop iteration: queen.run(); the running task is
\* kept, or finished and replaced by its parent
Exec ==
    /\ pc = "exec"
    /\ LET q == queens[idx]
       IN /\ runs' = Append(runs, q)
          /\ \/ task' = task
             \/ /\ task[q] # NoTask
                /\ task' = [task EXCEPT ![q] = Tail(@)]
    /\ pc' = NextPc(idx)
    /\ idx' = idx + 1
    /\ UNCHANGED <<envVars, overlordVars, builds, warnings, goTos, warnedBefore>>

\* the tick is over: the overlord object and what it logged are dropped
TickOver ==
    /\ pc = "done"
    /\ pc' = "env"
    /\ queens' = << >>
    /\ batteries' = << >>
    /\ storeStructures' = << >>
    /\ quadrants' = [lowerRight |-> << >>, upperLeft |-> << >>,
                     lowerLeft |-> << >>, upperRight |-> << >>]
    /\ assignments' = [q \in creeps |-> << >>]
    /\ idx' = 0
    /\ builds' = << >>
    /\ warnings' = << >>
    /\ goTos' = << >>
    /\ runs' = << >>
    /\ warnedBefore' = {w[1] : w \in {x \in Range(warnings) :
                                        x[2] \in {NoTransferTargets, NoWithdrawTarget}}}
    /\ UNCHANGED <<envVars, task>>

\* ------------------------------------------------------------ constructor alone
Layouts == {[c \in Coords |-> LookOption(c, k[c])] : k \in [Coords -> 0..3]}
NoCarry == [r \in Resources |-> 0]
NoRequests == << >>
NoStores == << >>

InitOverlord ==
    /\ queens = << >>
    /\ batteries = << >>
    /\ storeStructures = << >>
    /\ quadrants = [lowerRight |-> << >>, upperLeft |-> << >>,
                    lowerLeft |-> << >>, upperRight |-> << >>]
    /\ assignments = [q \in creeps |-> << >>]
    /\ pc = "env"
    /\ idx = 0
    /\ builds = << >>
    /\ warnings = << >>
    /\ goTos = << >>
    /\ runs = << >>
    /\ warnedBefore = {}

\* any set of queens, any of them still spawning, any layout of the quadrants
InitAssign ==
    /\ creeps \in SUBSET (1..MaxQueens)
    /\ spawning \in [creeps -> BOOLEAN]
    /\ structuresAt \in Layouts
    /\ carry = [q \in creeps |-> NoCarry]
    /\ carryCapacity = [q \in creeps |-> MaxCapacity]
    /\ qpos = [q \in creeps |-> 0]
    /\ task = [q \in creeps |-> NoTask]
    /\ store = NoStores
    /\ containers = << >>
    /\ supplyByID = NoRequests
    /\ withdrawByID = NoRequests
    /\ InitOverlord

NextAssign == Construct

SpecAssign == InitAssign /\ [][NextAssign]_vars

\* ------------------------------------------------------------ one queen, any inputs
\* a bunker with a spawn in the lower right and a tower in the upper left quadrant
TwoStructures == [c \in Coords |-> IF c \in {1, 3} THEN LookOption(c, 1) ELSE << >>]
SupplyIds == {1, 3}

StoreContents == [Resources -> 0..MaxStock]
StoreMaps == UNION {[D -> StoreContents] : D \in SUBSET {TerminalId, StorageId}}

Request(target, resourceType, amount) ==
    [target |-> target, resourceType |-> resourceType, amount |-> amount]

\* request indexes holding at most one request per structure
RequestMaps ==
    UNION {{[id \in D |-> << Request(id, c[id][1], c[id][2]) >>] :
               c \in [D -> Resources \X (0..MaxAmount)]} : D \in SUBSET SupplyIds}

EnergyOnly(e) == [r \in Resources |-> IF r = "energy" THEN e ELSE 0]

\* one active idle queen, with any carry, capacity, stores and requests of one kind
InitManifest ==
    /\ creeps = {1}
    /\ spawning = [q \in creeps |-> FALSE]
    /\ structuresAt = TwoStructures
    /\ carry \in [creeps -> {EnergyOnly(0), EnergyOnly(1)}]
    /\ carryCapacity \in [creeps -> 0..MaxCapacity]
    /\ qpos = [q \in creeps |-> 3]
    /\ task = [q \in creeps |-> NoTask]
    /\ store \in StoreMaps
    /\ containers = << >>
    /\ \E requests \in RequestMaps :
          \/ supplyByID = requests /\ withdrawByID = NoRequests
          \/ supplyByID = NoRequests /\ withdrawByID = requests
    /\ InitOverlord

NextManifest == Construct \/ Handle \/ Exec

SpecManifest == InitManifest /\ [][NextManifest]_vars

\* ------------------------------------------------------------ one queen, any stores
\* this.room.containers: up to two containers, each inside the bunker or not
ContainerLists ==
    {<< >>}
    \cup {<< [id |-> i, inside |-> a] >> : i \in ContainerIds, a \in BOOLEAN}
    \cup {<< [id |-> x[1], inside |-> x[3]], [id |-> x[2], inside |-> x[4]] >> :
             x \in {y \in ContainerIds \X ContainerIds \X BOOLEAN \X BOOLEAN :
                       y[1] # y[2]}}

QueenPositions == 0..8

\* one active idle queen at any position, carrying energy or not, with any
\* terminal, storage and containers, each empty or stocked, and one request
InitSource ==
    /\ creeps = {1}
    /\ spawning = [q \in creeps |-> FALSE]
    /\ structuresAt = TwoStructures
    /\ carry \in [creeps -> {EnergyOnly(0), EnergyOnly(1)}]
    /\ carryCapacity = [q \in creeps |-> MaxCapacity]
    /\ qpos \in [creeps -> QueenPositions]
    /\ task = [q \in creeps |-> NoTask]
    /\ containers \in ContainerLists
    /\ \E D \in SUBSET {TerminalId, StorageId} :
          store \in [D \cup {containers[i].id : i \in 1..Len(containers)}
                       -> {EnergyOnly(0), EnergyOnly(MaxStock)}]
    /\ \/ \E amount \in 1..MaxAmount :
             /\ supplyByID = [id \in {1} |-> << Request(id, "energy", amount) >>]
             /\ withdrawByID = NoRequests
       \/ /\ supplyByID = NoRequests
          /\ withdrawByID = [id \in {3} |-> << Request(id, "energy", MaxAmount) >>]
    /\ InitOverlord

NextSource == Construct \/ Handle \/ Exec

SpecSource == InitSource /\ [][NextSource]_vars

\* ------------------------------------------------------------ the colony, tick after tick
BetweenTicks == pc = "env"

\* a queen leaves its spawn
Spawned ==
    /\ BetweenTicks
    /\ \E q \in creeps :
          /\ spawning[q]
          /\ spawning' = [spawning EXCEPT ![q] = FALSE]
    /\ UNCHANGED <<pc, creeps, carry, carryCapacity, qpos, store, containers, structuresAt,
                   supplyByID, withdrawByID, overlordVars, task, idx, logVars>>

\* a structure asks for energy (TransportRequestGroup.requestInput)
RequestInput ==
    /\ BetweenTicks
    /\ \E id \in SupplyIds \ DOMAIN supplyByID :
          supplyByID' = (id :> << Request(id, "energy", MaxAmount) >>) @@ supplyByID
    /\ UNCHANGED <<pc, creeps, spawning, carry, carryCapacity, qpos, store, containers,
                   structuresAt, withdrawByID, overlordVars, task, idx, logVars>>

\* a structure asks to be emptied (TransportRequestGroup.requestOutput)
RequestOutput ==
    /\ BetweenTicks
    /\ \E id \in {3} \ DOMAIN withdrawByID :
          withdrawByID' = (id :> << Request(id, "energy", MaxAmount) >>) @@ withdrawByID
    /\ UNCHANGED <<pc, creeps, spawning, carry, carryCapacity, qpos, store, containers,
                   structuresAt, supplyByID, overlordVars, task, idx, logVars>>

Without(f, x) == [y \in DOMAIN f \ {x} |-> f[y]]

\* a request is no longer made
RequestGone ==
    /\ BetweenTicks
    /\ \/ \E id \in DOMAIN supplyByID :
             supplyByID' = Without(supplyByID, id) /\ UNCHANGED withdrawByID
       \/ \E id \in DOMAIN withdrawByID :
             withdrawByID' = Without(withdrawByID, id) /\ UNCHANGED supplyByID
    /\ UNCHANGED <<pc, creeps, spawning, carry, carryCapacity, qpos, store, containers,
                   structuresAt, overlordVars, task, idx, logVars>>

\* the terminal or the storage is built, destroyed, filled or emptied
StoreChange ==
    /\ BetweenTicks
    /\ \E id \in {TerminalId, StorageId} :
          \/ id \in DOMAIN store /\ store' = Without(store, id)
          \/ id \notin DOMAIN store /\ store' = (id :> EnergyOnly(MaxStock)) @@ store
    /\ UNCHANGED <<pc, creeps, spawning, carry, carryCapacity, qpos, containers, structuresAt,
                   supplyByID, withdrawByID, overlordVars, task, idx, logVars>>

\* a queen picks up or drops energy outside its manifest
CarryChange ==
    /\ BetweenTicks
    /\ \E q \in creeps :
          carry' = [carry EXCEPT ![q] = IF @ = EnergyOnly(0) THEN EnergyOnly(1)
                                        ELSE EnergyOnly(0)]
    /\ UNCHANGED <<pc, creeps, spawning, carryCapacity, qpos, store, containers, structuresAt,
                   supplyByID, withdrawByID, overlordVars, task, idx, logVars>>

Init ==
    /\ creeps = 1..WishlistAmount
    /\ spawning \in [creeps -> BOOLEAN]
    /\ structuresAt = TwoStructures
    /\ carry = [q \in creeps |-> EnergyOnly(0)]
    /\ carryCapacity = [q \in creeps |-> MaxCapacity]
    /\ qpos = [q \in creeps |-> 3]
    /\ task = [q \in creeps |-> NoTask]
    /\ store = NoStores
    /\ containers = << >>
    /\ supplyByID = NoRequests
    /\ withdrawByID = NoRequests
    /\ InitOverlord

Next ==
    \/ Construct
    \/ Handle
    \/ Exec
    \/ TickOver
    \/ Spawned
    \/ RequestInput
    \/ RequestOutput
    \/ RequestGone
    \/ StoreChange
    \/ CarryChange

Spec == Init /\ [][Next]_vars

\* ------------------------------------------------------------ C1, C2
Constructed == pc # "env"

\* the queens that are not spawning, as a set
ActiveSet == {q \in creeps : ~spawning[q]}

\* the number of active queens whose name is smaller than q's
RankOf(q) == Cardinality({p \in ActiveSet : p < q})

\* the zone at 0-based index i of [lowerRight, upperLeft, lowerLeft, upperRight]
\* if it goes to the active queen of 0-based rank k among n, else nothing
ZoneIf(i, k, n) == IF i % n = k THEN quadrantAssignmentOrder(quadrants)[i + 1] ELSE << >>

\* C1: with n >= 1 active queens in name order, zone i of [lowerRight, upperLeft,
\* lowerLeft, upperRight] goes to activeQueens[i mod n] and to nobody else: every
\* active queen's assignment is the concatenation of exactly its zones' lists
C1_RoundRobinAssignment ==
    Constructed =>
        \A q \in ActiveSet :
            LET n == Cardinality(ActiveSet)
                k == RankOf(q)
            IN assignments[q] =
                   ZoneIf(0, k, n) \o ZoneIf(1, k, n) \o ZoneIf(2, k, n) \o ZoneIf(3, k, n)

\* C1 witness: two active queens, every quadrant holds a structure, the first
\* queen has lowerRight and lowerLeft and the second upperLeft and upperRight
C1_Witness ==
    /\ Constructed
    /\ Cardinality(ActiveSet) = 2
    /\ \A i \in 1..4 : quadrantAssignmentOrder(quadrants)[i] # << >>
    /\ \E a, b \in ActiveSet :
          /\ a < b
          /\ assignments[a] = quadrants.lowerRight \o quadrants.lowerLeft
          /\ assignments[b] = quadrants.upperLeft \o quadrants.upperRight

\* C2: a queen that is still spawning has an empty assignment, and with no
\* active queen every queen's assignment is empty
C2_InactiveQueensUnassigned ==
    Constructed =>
        /\ DOMAIN assignments = creeps
        /\ \A q \in creeps : spawning[q] => assignments[q] = << >>
        /\ (ActiveSet = {}) => \A q \in creeps : assignments[q] = << >>

\* C2 witness: a spawning queen next to an active one that holds structures
C2_Witness ==
    /\ Constructed
    /\ \E q \in creeps : spawning[q]
    /\ \E q \in creeps : ~spawning[q] /\ assignments[q] # << >>
    /\ quadrants.upperLeft # << >>

\* ------------------------------------------------------------ C3, C4, C5
\* the queen run() is at, once the constructor has run
Current == queens[idx]

Built(q, kind) == \E i \in 1..Len(builds) : builds[i] = << q, kind >>

WarningsOf(q) == SelectSeq(warnings, LAMBDA w : w[1] = q)

Moved(q) == \E i \in 1..Len(goTos) : goTos[i][1] = q

RECURSIVE RequestedSum(_)
RequestedSum(requests) ==
    IF requests = << >> THEN 0 ELSE Head(requests).amount + RequestedSum(Tail(requests))

\* C3: at every point of the greedy fill of the supply build and of the withdraw
\* build (after any number k of requests), the simulated carry summed over all
\* resource kinds is at most the queen's carry capacity
C3_CapacityRespected ==
    Constructed =>
        \A q \in creeps :
            /\ \A k \in 0..Len(RequestsOf(q, supplyByID)) :
                  SimulatedSum(SupplyFill(RequestsOf(q, supplyByID), carryCapacity[q], k).queenCarry)
                      <= carryCapacity[q]
            /\ \A k \in 0..Len(RequestsOf(q, withdrawByID)) :
                  SimulatedSum(WithdrawFill(RequestsOf(q, withdrawByID), carryCapacity[q], k).queenCarry)
                      <= carryCapacity[q]

\* C3 witness: a supply manifest was built from requests for more than the queen
\* can carry while the stores hold more than that too, and the fill ended full
C3_Witness ==
    /\ pc = "exec"
    /\ Built(Current, "supply")
    /\ task[Current] # NoTask
    /\ carryCapacity[Current] > 0
    /\ RequestedSum(RequestsOf(Current, supplyByID)) > carryCapacity[Current]
    /\ allStore("energy") > carryCapacity[Current]
    /\ LET requests == RequestsOf(Current, supplyByID)
       IN SimulatedSum(SupplyFill(requests, carryCapacity[Current], Len(requests)).queenCarry)
              = carryCapacity[Current]

\* the amount of a resource the delivery operations of a manifest hand over
RECURSIVE DeliveredSum(_, _)
DeliveredSum(ops, resourceType) ==
    IF ops = << >> THEN 0
    ELSE (IF Head(ops).op = "transfer" /\ Head(ops).resourceType = resourceType
          THEN Head(ops).amount ELSE 0) + DeliveredSum(Tail(ops), resourceType)

\* the simulated required amount of a resource in the supply build of q
Needed(q, resourceType) ==
    SupplyFill(RequestsOf(q, supplyByID), carryCapacity[q],
               Len(RequestsOf(q, supplyByID))).queenCarry.amt[resourceType]

Covers(s, q) == \A r \in Resources : store[s][r] >= Needed(q, r)

\* C4: right after a supply build, the store the manifest withdraws from holds at
\* least the required amount of every needed resource, and when no store structure
\* does, no manifest is produced and a warning is logged
C4_AllOrNothingSource ==
    (pc = "exec" /\ Built(Current, "supply")) =>
        /\ \A i \in 1..Len(task[Current]) :
              task[Current][i].op = "withdraw" =>
                  /\ task[Current][i].target \in Range(StoreStructures)
                  /\ \A r \in Resources :
                        /\ store[task[Current][i].target][r] >= DeliveredSum(task[Current], r)
                        /\ DeliveredSum(task[Current], r) = Needed(Current, r)
        /\ (\A s \in Range(StoreStructures) : ~Covers(s, Current)) =>
              /\ task[Current] = NoTask
              /\ WarningsOf(Current) # << >>

\* C4 witness: the terminal has the energy but not the mineral that is needed, the
\* storage has both, and the manifest withdraws from the storage
C4_Witness ==
    /\ pc = "exec"
    /\ Built(Current, "supply")
    /\ DOMAIN store = {TerminalId, StorageId}
    /\ Needed(Current, "energy") > 0
    /\ Needed(Current, "mineral") > 0
    /\ store[TerminalId]["energy"] >= Needed(Current, "energy")
    /\ store[TerminalId]["mineral"] < Needed(Current, "mineral")
    /\ \E i \in 1..Len(task[Current]) :
          task[Current][i].op = "withdraw" /\ task[Current][i].target = StorageId

\* ops[from..to] are all operations of one kind
AllOfKind(ops, from, to, kind) == \A i \in from..to : ops[i].op = kind

\* at most one transfer-all, then withdrawals, then deliveries
SupplyShape(ops) ==
    \E a \in 0..1 : \E b \in a..Len(ops) :
        /\ AllOfKind(ops, 1, a, "transferAll")
        /\ AllOfKind(ops, a + 1, b, "withdraw")
        /\ AllOfKind(ops, b + 1, Len(ops), "transfer")

\* at most one transfer-all, then withdrawals, then exactly one transfer-all
WithdrawShape(ops) ==
    /\ Len(ops) >= 1
    /\ ops[Len(ops)].op = "transferAll"
    /\ \E a \in 0..1 :
          /\ a <= Len(ops) - 1
          /\ AllOfKind(ops, 1, a, "transferAll")
          /\ AllOfKind(ops, a + 1, Len(ops) - 1, "withdraw")

\* C5: a supply manifest that is produced is [flush (0 or 1)] + [withdrawals] +
\* [deliveries]; a withdraw manifest that is produced is [flush (0 or 1)] +
\* [withdrawals] + [one final flush], also when it holds no withdrawal
C5_ChainOrdering ==
    (pc = "exec" /\ task[Current] # NoTask) =>
        /\ Built(Current, "supply") => SupplyShape(task[Current])
        /\ Built(Current, "withdraw") => WithdrawShape(task[Current])
        /\ (Built(Current, "withdraw") /\ ~\E i \in 1..Len(task[Current]) :
                                              task[Current][i].op = "withdraw")
              => task[Current][Len(task[Current])].op = "transferAll"

\* C5 witness: a supply manifest with a flush, two withdrawals and two deliveries
C5_Witness ==
    /\ pc = "exec"
    /\ Built(Current, "supply")
    /\ Len(task[Current]) = 5
    /\ task[Current][1].op = "transferAll"
    /\ task[Current][3].op = "withdraw"
    /\ task[Current][5].op = "transfer"

\* a withdraw manifest that holds nothing but the final flush is reachable
C5_WitnessOnlyFinalFlush ==
    /\ pc = "exec"
    /\ Built(Current, "withdraw")
    /\ Len(task[Current]) = 1
    /\ RequestsOf(Current, withdrawByID) # << >>

\* ------------------------------------------------------------ C6 .. C10
\* the step of run() that reaches the queen at idx: the isIdle test and handleQueen
HandleStep == pc = "handle" /\ pc' = "exec"

\* a structure assigned to q has a pending removal / delivery request
RemovalPending(q) == \E s \in Range(assignments[q]) : s \in DOMAIN withdrawByID
DeliveryPending(q) == \E s \in Range(assignments[q]) : s \in DOMAIN supplyByID

\* the idle handler was invoked for q in this step
IdleHandled(q) == \E spot \in Range(bunkerChargingSpots) \cup {qpos[q]} :
                      goTos' = Append(goTos, << q, spot >>)

\* C6: for a queen that is idle when run() reaches it: with a removal request
\* pending the withdraw build alone is run, else with a delivery request pending
\* the supply build is run, else none; and the idle handler is invoked exactly
\* when the queen is still idle afterwards
C6_DispatchPriority ==
    [][(HandleStep /\ task[Current] = NoTask) =>
          /\ RemovalPending(Current) => builds' = Append(builds, << Current, "withdraw" >>)
          /\ (~RemovalPending(Current) /\ DeliveryPending(Current)) =>
                builds' = Append(builds, << Current, "supply" >>)
          /\ (~RemovalPending(Current) /\ ~DeliveryPending(Current)) => builds' = builds
          /\ task'[Current] = NoTask => IdleHandled(Current)
          /\ task'[Current] # NoTask => goTos' = goTos]_vars

\* C6 witness: removal and delivery requests were both pending for an idle queen,
\* the withdraw build was run and failed, the supply build was not run and the
\* queen was sent to its charging spot
C6_Witness ==
    /\ pc = "exec"
    /\ RemovalPending(Current)
    /\ DeliveryPending(Current)
    /\ Built(Current, "withdraw")
    /\ ~Built(Current, "supply")
    /\ task[Current] = NoTask
    /\ Moved(Current)

\* a queen that got a manifest in this tick got no idle movement directive
C6_WitnessManifest ==
    /\ pc = "exec"
    /\ Built(Current, "supply")
    /\ task[Current] # NoTask
    /\ ~Moved(Current)

\* C7: an idle queen with an empty assignment, or with no pending request on its
\* assigned structures, gets no manifest: no build is invoked, its task stays
\* unset and the idle handler sends it to a charging spot
C7_EmptyCaseIdles ==
    [][(HandleStep /\ task[Current] = NoTask
           /\ (assignments[Current] = << >>
               \/ (~RemovalPending(Current) /\ ~DeliveryPending(Current)))) =>
          /\ builds' = builds
          /\ warnings' = warnings
          /\ task' = task
          /\ IdleHandled(Current)]_vars

\* C7 witness: a queen with an empty assignment was sent to a charging spot with
\* no build, while another queen's structures had requests pending
C7_Witness ==
    /\ pc = "exec"
    /\ assignments[Current] = << >>
    /\ DOMAIN supplyByID # {}
    /\ task[Current] = NoTask
    /\ Moved(Current)
    /\ ~Built(Current, "supply")
    /\ ~Built(Current, "withdraw")

BuildFailures(q) ==
    SelectSeq(warnings, LAMBDA w : w[1] = q /\ w[2] \in {NoTransferTargets, NoWithdrawTarget})

\* C8: with no terminal, storage or battery and a queen that carries something,
\* the build run for that queen (supply or withdraw) fails: the queen has no task,
\* was sent to its charging spot and exactly one build failure was logged for it
C8_NoFallbackStore ==
    \A q \in creeps :
        ((Built(q, "supply") \/ Built(q, "withdraw"))
            /\ DOMAIN store = {} /\ Batteries = << >> /\ CarrySum(q) > 0) =>
            /\ task[q] = NoTask
            /\ Moved(q)
            /\ Len(BuildFailures(q)) = 1

\* C8 witness: both queens carry energy and had a build run with no store at all,
\* one the withdraw build and the other the supply build
C8_Witness ==
    /\ pc = "done"
    /\ DOMAIN store = {}
    /\ \E a, b \in creeps :
          /\ Built(a, "withdraw") /\ CarrySum(a) > 0
          /\ Built(b, "supply") /\ CarrySum(b) > 0
          /\ Len(BuildFailures(a)) = 1
          /\ Len(BuildFailures(b)) = 1

\* C9: queen.run() is invoked once for every queen, in name order: inside the loop
\* for the queens before the current one, and for all of them when the tick is
\* done, whatever builds failed
C9_EveryQueenRuns ==
    /\ pc = "done" =>
          /\ Range(runs) = creeps
          /\ Len(runs) = Cardinality(creeps)
          /\ \A i, j \in 1..Len(runs) : i < j => runs[i] < runs[j]
    /\ pc \in {"handle", "exec"} =>
          /\ Len(runs) = idx - 1
          /\ \A i \in 1..Len(runs) : runs[i] = queens[i]

\* C9 witness: the first queen's build failed and the second queen was run after it
C9_Witness ==
    /\ pc = "done"
    /\ Len(runs) = 2
    /\ BuildFailures(runs[1]) # << >>
    /\ Built(runs[2], "withdraw")
    /\ task[runs[2]] # NoTask

\* C10: a queen that is not idle when run() reaches it keeps its task: no build,
\* no warning and no idle movement for it
C10_MidChainUntouched ==
    [][(HandleStep /\ task[Current] # NoTask) =>
          /\ task' = task
          /\ builds' = builds
          /\ warnings' = warnings
          /\ goTos' = goTos]_vars

\* C10 witness: a queen in the middle of a manifest was passed over although a
\* request is pending on its structures and its task aims at a structure that is
\* no longer assigned to it
C10_Witness ==
    /\ pc = "exec"
    /\ task[Current] # NoTask
    /\ ~Built(Current, "supply")
    /\ ~Built(Current, "withdraw")
    /\ RemovalPending(Current)
    /\ \E i \in 1..Len(task[Current]) :
          /\ task[Current][i].op = "transfer"
          /\ task[Current][i].target \notin Range(assignments[Current])

\* ------------------------------------------------------------ C11
ZoneNames == {"lowerRight", "upperLeft", "lowerLeft", "upperRight"}
SupplyTypes == {"extension", "spawn", "tower", "lab"}

\* the structures of the layout whose type is a supply type
QualifyingAt(coord) ==
    {structuresAt[coord][i].id : i \in {j \in 1..Len(structuresAt[coord]) :
                                          structuresAt[coord][j].structureType \in SupplyTypes}}

\* the places (zone, index) at which a structure id is listed
PlacesOf(id) ==
    UNION {{<<z, i>> : i \in {j \in 1..Len(quadrants[z]) : quadrants[z][j] = id}} :
           z \in ZoneNames}

\* the index in a zone's coordinate list of the coordinate a listed structure stands on
CoordIndex(z, id) ==
    CHOOSE k \in 1..Len(quadrantFillOrder[z]) : id \in QualifyingAt(quadrantFillOrder[z][k])

\* C11: once the zones are computed, every extension, spawn, tower and lab of
\* the layout is listed exactly once over the four zones, in the zone whose
\* coordinate list holds its coordinate; each zone lists its structures in the
\* order of its coordinate list; nothing else is listed, so a coordinate with no
\* qualifying structure contributes nothing
C11_ZonesPartitionSupplyStructures ==
    Constructed =>
        /\ \A c \in Coords : \A id \in QualifyingAt(c) :
              /\ Cardinality(PlacesOf(id)) = 1
              /\ \A p \in PlacesOf(id) : c \in Range(quadrantFillOrder[p[1]])
        /\ \A z \in ZoneNames :
              /\ \A i \in 1..Len(quadrants[z]) :
                    \E k \in 1..Len(quadrantFillOrder[z]) :
                        quadrants[z][i] \in QualifyingAt(quadrantFillOrder[z][k])
              /\ \A i, j \in 1..Len(quadrants[z]) :
                    i < j => CoordIndex(z, quadrants[z][i]) < CoordIndex(z, quadrants[z][j])
              /\ Len(quadrants[z]) =
                    Cardinality({k \in 1..Len(quadrantFillOrder[z]) :
                                    QualifyingAt(quadrantFillOrder[z][k]) # {}})

\* the constructor has run on a layout with both lower-right structures (one
\* under a rampart), a road alone on the upper-left coordinate, a lab, and an
\* empty coordinate
C11_Witness ==
    /\ Constructed
    /\ quadrants.lowerRight = <<1, 2>>
    /\ Len(structuresAt[2]) = 2
    /\ structuresAt[3] # << >> /\ quadrants.upperLeft = << >>
    /\ quadrants.lowerLeft = <<4>>
    /\ structuresAt[5] = << >>

\* ------------------------------------------------------------ C12
\* this.colony.terminal || this.colony.storage || this.batteries[0] is defined
FallbackExists ==
    \/ TerminalId \in DOMAIN store
    \/ StorageId \in DOMAIN store
    \/ \E i \in 1..Len(containers) : containers[i].inside

\* nothing stands in the way of the withdraw build / of the supply build of q
\* producing a manifest from the present state
WithdrawBuildCanSucceed(q) == FallbackExists
SupplyBuildCanSucceed(q) ==
    /\ CarrySum(q) = 0 \/ FallbackExists
    /\ \E s \in Range(storeStructures) : Covers(s, q)
    /\ CarrySum(q) > 0 \/ \E r \in Resources : Needed(q, r) > 0

\* C12: when run() reaches a queen whose build failed in the tick before, the
\* queen is idle; with a request pending on a structure assigned to it now, one
\* build is run again, and it is decided by the present state alone: with the
\* cause of failure gone a manifest is produced and no warning logged, and with
\* a fallback store or a covering store still missing it fails again
C12_FailedBuildRetried ==
    [][(HandleStep /\ Current \in warnedBefore) =>
          /\ task[Current] = NoTask
          /\ (RemovalPending(Current) \/ DeliveryPending(Current)) =>
                /\ Len(builds') = Len(builds) + 1
                /\ builds'[Len(builds')][1] = Current
          /\ (RemovalPending(Current) /\ WithdrawBuildCanSucceed(Current)) =>
                task'[Current] # NoTask /\ warnings' = warnings
          /\ (~RemovalPending(Current) /\ DeliveryPending(Current)
                /\ SupplyBuildCanSucceed(Current)) =>
                task'[Current] # NoTask /\ warnings' = warnings
          /\ (RemovalPending(Current) /\ ~WithdrawBuildCanSucceed(Current)) =>
                task'[Current] = NoTask /\ Len(warnings') > Len(warnings)]_vars

\* C12 witness: a queen whose build failed in the tick before has had a build
\* run in this tick, and this time it has a manifest
C12_Witness ==
    /\ pc = "exec"
    /\ Current \in warnedBefore
    /\ Built(Current, "supply") \/ Built(Current, "withdraw")
    /\ task[Current] # NoTask
    /\ BuildFailures(Current) = << >>

\* a queen whose build failed in the tick before has had the build run again
\* and it failed again
C12_WitnessFailedAgain ==
    /\ pc = "exec"
    /\ Current \in warnedBefore
    /\ Built(Current, "withdraw")
    /\ BuildFailures(Current) # << >>

\* ------------------------------------------------------------ C13
BuildRun == Len(builds') = Len(builds) + 1

\* C13: a step of run() in which a manifest build is run, of either kind and
\* whether it produces a manifest or fails, leaves every store's resource map,
\* both request indexes, the assignments and every queen's carry as they were,
\* and changes no task but that of the queen the build is for
C13_BuildReadsOnly ==
    [][(HandleStep /\ BuildRun) =>
          /\ store' = store
          /\ supplyByID' = supplyByID
          /\ withdrawByID' = withdrawByID
          /\ assignments' = assignments
          /\ carry' = carry
          /\ carryCapacity' = carryCapacity
          /\ storeStructures' = storeStructures
          /\ \A q \in creeps : q # Current => task'[q] = task[q]]_vars

\* C13 witness: a supply build has produced a manifest with a flush and a
\* withdraw for a queen that carries energy; the request it serves is still
\* pending and the store still holds what it held
C13_Witness ==
    /\ pc = "exec"
    /\ Built(Current, "supply")
    /\ CarrySum(Current) > 0
    /\ Len(task[Current]) >= 3
    /\ task[Current][1].op = "transferAll"
    /\ task[Current][2].op = "withdraw"
    /\ store[task[Current][2].target][task[Current][2].resourceType]
          >= task[Current][2].amount
    /\ RequestsOf(Current, supplyByID) # << >>

\* a withdraw build has failed for a queen that carries energy, and a supply
\* build has failed
C13_WitnessFailed ==
    /\ pc = "exec"
    /\ Built(Current, "withdraw") \/ Built(Current, "supply")
    /\ BuildFailures(Current) # << >>
    /\ CarrySum(Current) > 0
    /\ task[Current] = NoTask

\* ------------------------------------------------------------ C14
\* the amount of a resource that all store structures hold together
Availability(resourceType) ==
    SumOver([s \in Range(storeStructures) |-> store[s][resourceType]],
            Range(storeStructures))

\* the pending requests of a queen's assigned structures, structure by structure
RECURSIVE InIndexOrder(_, _)
InIndexOrder(structures, byID) ==
    IF structures = << >> THEN << >>
    ELSE (IF Head(structures) \in DOMAIN byID THEN byID[Head(structures)] ELSE << >>)
         \o InIndexOrder(Tail(structures), byID)

\* the deliveries the greedy fill is to plan for a list of requests, with a
\* given capacity and a given amount already in the simulated carry
RECURSIVE ExpectedDeliveries(_, _, _)
ExpectedDeliveries(requests, capacity, carried) ==
    IF requests = << >> \/ capacity - carried = 0 THEN << >>
    ELSE LET request == Head(requests)
             remaining == capacity - carried
             amount == Min(Min(request.amount, remaining),
                           Availability(request.resourceType))
         IN IF amount = 0 THEN ExpectedDeliveries(Tail(requests), capacity, carried)
            ELSE << [op |-> "transfer", target |-> request.target,
                     resourceType |-> request.resourceType, amount |-> amount] >>
                 \o ExpectedDeliveries(Tail(requests), capacity, carried + amount)

DeliveriesOf(ops) == SelectSeq(ops, LAMBDA o : o.op = "transfer")

\* C14: the deliveries planned by the supply loop are those of the greedy fill:
\* requests in index order over the queen's structures, each given
\* min(request.amount, remaining capacity, availability over all stores), a
\* request given 0 passed over, the loop over when nothing remains; the simulated
\* carry is the sum of the deliveries, and a manifest that is produced holds
\* exactly these deliveries
C14_SupplyGreedyFill ==
    Constructed =>
        \A q \in creeps :
            LET requests == InIndexOrder(assignments[q], supplyByID)
                expected == ExpectedDeliveries(requests, carryCapacity[q], 0)
                fill == SupplyFill(RequestsOf(q, supplyByID), carryCapacity[q],
                                   Len(RequestsOf(q, supplyByID)))
            IN /\ fill.tasks = expected
               /\ \A r \in Resources : fill.queenCarry.amt[r] = DeliveredSum(expected, r)
               /\ (pc = "exec" /\ q = Current /\ Built(q, "supply") /\ task[q] # NoTask) =>
                      DeliveriesOf(task[q]) = expected

\* C14 witness: a queen of capacity 1, a request for 2 energy and 2 energy in the
\* stores: the manifest is one withdraw of 1 and one delivery of 1
C14_Witness ==
    /\ pc = "exec"
    /\ Built(Current, "supply")
    /\ carryCapacity[Current] = 1
    /\ \E id \in DOMAIN supplyByID :
          /\ supplyByID[id] = << Request(id, "energy", 2) >>
          /\ Availability("energy") = 2
          /\ \E s \in Range(storeStructures) :
                task[Current] = << Withdraw(s, "energy", 1), Transfer(id, "energy", 1) >>

\* the first request is given 0 because no store holds its resource, and the
\* manifest delivers to the second
C14_WitnessZeroSkipped ==
    /\ pc = "exec"
    /\ Built(Current, "supply")
    /\ Len(RequestsOf(Current, supplyByID)) = 2
    /\ RequestsOf(Current, supplyByID)[1].amount > 0
    /\ Availability(RequestsOf(Current, supplyByID)[1].resourceType) = 0
    /\ Len(DeliveriesOf(task[Current])) = 1
    /\ DeliveriesOf(task[Current])[1].target = RequestsOf(Current, supplyByID)[2].target

\* ------------------------------------------------------------ C15
\* the withdraw operations of the claim as it is worded: while capacity remains,
\* every request appends one operation of min(request.amount, remaining)
RECURSIVE WithdrawalsForEveryRequest(_, _, _)
WithdrawalsForEveryRequest(requests, capacity, carried) ==
    IF requests = << >> \/ capacity - carried = 0 THEN << >>
    ELSE LET request == Head(requests)
             amount == Min(request.amount, capacity - carried)
         IN << [op |-> "withdraw", target |-> request.target,
                resourceType |-> request.resourceType, amount |-> amount] >>
            \o WithdrawalsForEveryRequest(Tail(requests), capacity, carried + amount)

\* the same, with a request of amount 0 passed over
RECURSIVE ExpectedWithdrawals(_, _, _)
ExpectedWithdrawals(requests, capacity, carried) ==
    IF requests = << >> \/ capacity - carried = 0 THEN << >>
    ELSE LET request == Head(requests)
             amount == Min(request.amount, capacity - carried)
         IN IF amount = 0 THEN ExpectedWithdrawals(Tail(requests), capacity, carried)
            ELSE << [op |-> "withdraw", target |-> request.target,
                     resourceType |-> request.resourceType, amount |-> amount] >>
                 \o ExpectedWithdrawals(Tail(requests), capacity, carried + amount)

WithdrawalsOf(ops) == SelectSeq(ops, LAMBDA o : o.op = "withdraw")

WithdrawnSum(ops) == RequestedSum(WithdrawalsOf(ops))

\* C15 as worded: the withdraw loop plans one withdraw operation for every
\* request met while capacity remains, of min(request.amount, remaining capacity)
C15_WithdrawEveryRequest ==
    Constructed =>
        \A q \in creeps :
            LET requests == InIndexOrder(assignments[q], withdrawByID)
                fill == WithdrawFill(RequestsOf(q, withdrawByID), carryCapacity[q],
                                     Len(RequestsOf(q, withdrawByID)))
            IN fill.tasks = WithdrawalsForEveryRequest(requests, carryCapacity[q], 0)

\* C15, amended: the withdraw loop takes the removal requests in index order over
\* the queen's structures and ends when no capacity remains; a request whose
\* amount min(request.amount, remaining capacity) is 0 adds nothing, every other
\* request adds one withdraw from its own target of that amount, whatever the
\* stores hold, and the simulated carry grows by that amount; a manifest that is
\* produced holds exactly these withdraws
C15_WithdrawGreedyFill ==
    Constructed =>
        \A q \in creeps :
            LET requests == InIndexOrder(assignments[q], withdrawByID)
                expected == ExpectedWithdrawals(requests, carryCapacity[q], 0)
                fill == WithdrawFill(RequestsOf(q, withdrawByID), carryCapacity[q],
                                     Len(RequestsOf(q, withdrawByID)))
            IN /\ fill.tasks = expected
               /\ SimulatedSum(fill.queenCarry) = RequestedSum(expected)
               /\ (pc = "exec" /\ q = Current /\ Built(q, "withdraw") /\ task[q] # NoTask) =>
                      WithdrawalsOf(task[q]) = expected

\* C15 witness: a withdraw manifest for two requests: the first is for 0 and has
\* no operation, the second is cut to what the stores do not hold at all
C15_Witness ==
    /\ pc = "exec"
    /\ Built(Current, "withdraw")
    /\ task[Current] # NoTask
    /\ Len(RequestsOf(Current, withdrawByID)) = 2
    /\ RequestsOf(Current, withdrawByID)[1].amount = 0
    /\ Len(WithdrawalsOf(task[Current])) = 1
    /\ WithdrawalsOf(task[Current])[1].target = RequestsOf(Current, withdrawByID)[2].target
    /\ Availability(WithdrawalsOf(task[Current])[1].resourceType) = 0

\* a withdraw manifest whose second withdraw is cut to the capacity that remains
C15_WitnessCut ==
    /\ pc = "exec"
    /\ Built(Current, "withdraw")
    /\ Len(WithdrawalsOf(task[Current])) = 2
    /\ WithdrawalsOf(task[Current])[2].amount < RequestsOf(Current, withdrawByID)[2].amount
    /\ WithdrawnSum(task[Current]) = carryCapacity[Current]

\* ------------------------------------------------------------ C16
SupplyManifestOf(q) == pc = "exec" /\ q = Current /\ Built(q, "supply") /\ task[q] # NoTask

Flushed(q) == task[q][1].op = "transferAll"

\* the store structures that hold all a manifest withdraws
QualifyingFor(ops) ==
    {s \in Range(storeStructures) :
        \A i \in 1..Len(WithdrawalsOf(ops)) :
            store[s][WithdrawalsOf(ops)[i].resourceType] >= WithdrawalsOf(ops)[i].amount}

\* where the queen stands once the flush is done: at the store the flush goes
\* to, or where it is when there is no flush
PostFlushPosition(q) == IF Flushed(q) THEN PosOf(task[q][1].target) ELSE qpos[q]

\* C16: the store a supply manifest withdraws from qualifies, and no
\* qualifying store is nearer the queen's post-flush position; with one
\* qualifying store, it is that one
C16_NearestQualifyingSource ==
    \A q \in creeps :
        (SupplyManifestOf(q) /\ WithdrawalsOf(task[q]) # << >>) =>
            LET chosen == WithdrawalsOf(task[q])[1].target
            IN /\ chosen \in QualifyingFor(task[q])
               /\ \A s \in QualifyingFor(task[q]) :
                     Distance(PostFlushPosition(q), PosOf(chosen))
                        <= Distance(PostFlushPosition(q), PosOf(s))

\* C16 witness: a flush to the terminal is planned, terminal and storage both
\* qualify, the queen stands nearer the storage, and the terminal is chosen
C16_Witness ==
    /\ SupplyManifestOf(Current)
    /\ Flushed(Current)
    /\ task[Current][1].target = TerminalId
    /\ {TerminalId, StorageId} \subseteq QualifyingFor(task[Current])
    /\ Distance(qpos[Current], PosOf(StorageId)) < Distance(qpos[Current], PosOf(TerminalId))
    /\ WithdrawalsOf(task[Current]) # << >>
    /\ WithdrawalsOf(task[Current])[1].target = TerminalId

\* no flush, three stores qualify and the nearest to the queen is a battery
C16_WitnessNoFlush ==
    /\ SupplyManifestOf(Current)
    /\ ~Flushed(Current)
    /\ Cardinality(QualifyingFor(task[Current])) >= 3
    /\ WithdrawalsOf(task[Current])[1].target \in ContainerIds

\* exactly one store qualifies, and it is not the nearest store structure
C16_WitnessOnlyOne ==
    /\ SupplyManifestOf(Current)
    /\ Cardinality(QualifyingFor(task[Current])) = 1
    /\ Len(storeStructures) > 1
    /\ WithdrawalsOf(task[Current]) # << >>
    /\ \E s \in Range(storeStructures) :
          Distance(PostFlushPosition(Current), PosOf(s))
             < Distance(PostFlushPosition(Current),
                        PosOf(WithdrawalsOf(task[Current])[1].target))

\* ------------------------------------------------------------ C17
\* the store a flush is to go to: the terminal, else the storage, else the
\* first container of the room that is inside the bunker
RECURSIVE FirstInside(_)
FirstInside(cs) ==
    IF cs = << >> THEN << >>
    ELSE IF Head(cs).inside THEN << Head(cs).id >> ELSE FirstInside(Tail(cs))

FallbackStore ==
    IF TerminalId \in DOMAIN store THEN << TerminalId >>
    ELSE IF StorageId \in DOMAIN store THEN << StorageId >>
    ELSE FirstInside(containers)

FlushesOf(ops) == SelectSeq(ops, LAMBDA o : o.op = "transferAll")

\* C17: a supply manifest starts with a flush exactly when the queen carries
\* something; a withdraw manifest ends with a flush and starts with another
\* exactly when the queen carries something; every flush goes to the terminal,
\* else the storage, else the first container inside the bunker
C17_FlushAndFallback ==
    \A q \in creeps :
        /\ SupplyManifestOf(q) =>
              /\ Flushed(q) <=> CarrySum(q) > 0
              /\ Len(FlushesOf(task[q])) = IF CarrySum(q) > 0 THEN 1 ELSE 0
        /\ (pc = "exec" /\ q = Current /\ Built(q, "withdraw") /\ task[q] # NoTask) =>
              /\ task[q][Len(task[q])].op = "transferAll"
              /\ (Len(task[q]) > 1 /\ Flushed(q)) <=> CarrySum(q) > 0
              /\ Len(FlushesOf(task[q])) = IF CarrySum(q) > 0 THEN 2 ELSE 1
        /\ (pc = "exec" /\ q = Current /\ task[q] # NoTask) =>
              \A i \in 1..Len(FlushesOf(task[q])) :
                  << FlushesOf(task[q])[i].target >> = FallbackStore

\* C17 witness: no terminal, no storage, the first container of the room is
\* outside the bunker and the second inside: a withdraw manifest for a queen
\* that carries energy flushes to the second container first and last
C17_Witness ==
    /\ pc = "exec"
    /\ Built(Current, "withdraw")
    /\ CarrySum(Current) > 0
    /\ DOMAIN store \cap {TerminalId, StorageId} = {}
    /\ Len(containers) = 2
    /\ ~containers[1].inside
    /\ Len(task[Current]) = 3
    /\ task[Current][1] = TransferAll(containers[2].id)
    /\ task[Current][3] = TransferAll(containers[2].id)

\* a supply manifest with a flush to the storage, with no terminal and with a
\* battery
C17_WitnessSupply ==
    /\ SupplyManifestOf(Current)
    /\ TerminalId \notin DOMAIN store
    /\ task[Current][1] = TransferAll(StorageId)
    /\ Batteries # << >>

\* a supply manifest for a queen that carries nothing has no flush
C17_WitnessNoFlush ==
    /\ SupplyManifestOf(Current)
    /\ CarrySum(Current) = 0
    /\ FlushesOf(task[Current]) = << >>

\* ------------------------------------------------------------ C18
RECURSIVE WithdrawnOf(_, _)
WithdrawnOf(ops, resourceType) ==
    IF ops = << >> THEN 0
    ELSE (IF Head(ops).op = "withdraw" /\ Head(ops).resourceType = resourceType
          THEN Head(ops).amount ELSE 0) + WithdrawnOf(Tail(ops), resourceType)

TargetingQueens(id) ==
    {q \in creeps : \E i \in 1..Len(task[q]) :
        /\ task[q][i].op \in {"transfer", "withdraw"}
        /\ task[q][i].target = id}

BuiltThisTick(q) == Built(q, "supply") \/ Built(q, "withdraw")

\* C19 as worded: at every point of every run a supply structure is the target of
\* deliveries or removals in the present task of at most one queen
C19_OneQueenPerStructure ==
    \A id \in SupplyIds : Cardinality(TargetingQueens(id)) <= 1

\* C19, amended: a supply structure is the target of deliveries or removals in
\* the manifests built in one and the same tick of at most one queen, and a
\* manifest is built only for structures assigned to its queen in that tick
C19_OneQueenPerStructureAndTick ==
    \A id \in SupplyIds :
        /\ Cardinality({q \in TargetingQueens(id) : BuiltThisTick(q)}) <= 1
        /\ \A q \in TargetingQueens(id) : BuiltThisTick(q) => id \in Range(assignments[q])

\* C19 witness: both queens have had a manifest built in this tick, each
\* targeting its own structure
C19_Witness ==
    /\ pc = "done"
    /\ \E a, b \in creeps :
          /\ a # b
          /\ BuiltThisTick(a) /\ BuiltThisTick(b)
          /\ \E id \in SupplyIds : a \in TargetingQueens(id)
          /\ \E id \in SupplyIds : b \in TargetingQueens(id)

\* a queen is in the middle of a manifest built in an earlier tick, and a
\* manifest built in this tick for another queen targets the same structure
C19_WitnessAcrossTicks ==
    \E id \in SupplyIds : \E a, b \in TargetingQueens(id) :
        /\ a # b
        /\ ~BuiltThisTick(a)
        /\ BuiltThisTick(b)

\* ------------------------------------------------------------ C20
\* the amount of a resource the operations of a task withdraw from a store
RECURSIVE WithdrawnFrom(_, _, _)
WithdrawnFrom(ops, s, resourceType) ==
    IF ops = << >> THEN 0
    ELSE (IF Head(ops).op = "withdraw" /\ Head(ops).target = s
             /\ Head(ops).resourceType = resourceType
          THEN Head(ops).amount ELSE 0) + WithdrawnFrom(Tail(ops), s, resourceType)

\* the sum over the queens whose supply manifest was built in this tick
RECURSIVE PlannedBy(_, _, _)
PlannedBy(Q, s, resourceType) ==
    IF Q = {} THEN 0
    ELSE LET q == CHOOSE x \in Q : TRUE
         IN WithdrawnFrom(task[q], s, resourceType) + PlannedBy(Q \ {q}, s, resourceType)

SuppliedThisTick == {q \in creeps : Built(q, "supply")}

\* C20 as worded: what the supply manifests built in one tick withdraw from a
\* store, all queens together, is at most what the store holds in that tick
C20_TickTotalWithinStock ==
    Constructed =>
        \A s \in DOMAIN store : \A r \in Resources :
            PlannedBy(SuppliedThisTick, s, r) <= store[s][r]

\* C20, amended: what one supply manifest built in a tick withdraws from a store
\* is at most what the store holds in that tick
C20_ManifestWithinStock ==
    Constructed =>
        \A q \in SuppliedThisTick : \A s \in DOMAIN store : \A r \in Resources :
            WithdrawnFrom(task[q], s, r) <= store[s][r]

\* C20 witness: two supply manifests built in one tick withdraw from the same
\* store, each no more than it holds and together more than it holds
C20_Witness ==
    /\ pc = "exec"
    /\ Cardinality(SuppliedThisTick) = 2
    /\ \E s \in DOMAIN store :
          /\ \A q \in SuppliedThisTick : WithdrawnFrom(task[q], s, "energy") > 0
          /\ \A q \in SuppliedThisTick : WithdrawnFrom(task[q], s, "energy") <= store[s]["energy"]
          /\ PlannedBy(SuppliedThisTick, s, "energy") > store[s]["energy"]

====
